---------------------------- MODULE Spec2Model ----------------------------
(***************************************************************************)
(* Model of script_for_github_repo_stats.py: argument validation, the      *)
(* paginated fetch get_items_list, the contributor tally of                *)
(* get_top_contributors, the open/closed/old counters of get_stats and the *)
(* order in which main() sends requests and prints.                        *)
(*                                                                         *)
(* Strings the code inspects character by character (the url argument, the *)
(* commit message, the ISO-8601 dates) are sequences of one-character      *)
(* strings.                                                                *)
(***************************************************************************)
EXTENDS Integers, Sequences, FiniteSets, TLC

VARIABLES
    pc,            \* position of the single thread of control
    url_arg,       \* the positional url argument as typed
    owner, repo,   \* main(): url.split("/")[3:5]
    start_date,    \* args.start_date (string)
    end_date,      \* args.end_date (string)
    url,           \* get_items_list: the loop variable url ("" when exhausted)
    items_list,    \* get_items_list: items_list, then the caller's commits / items
    served,        \* history: the responses received by the running get_items_list call
    result,        \* get_top_contributors: result, in dict insertion order
    pos,           \* index of the next element of the running for loop
    issues,        \* get_stats: issues
    pull_requests, \* get_stats: pull_requests
    trace,         \* history: the requests sent and the lines printed, in order
    error          \* the exception that ended the run, or "none"

vars == <<pc, url_arg, owner, repo, start_date, end_date, url, items_list, served,
          result, pos, issues, pull_requests, trace, error>>

-----------------------------------------------------------------------------
(* Bounds of the model *)

MaxPages == 3      \* longest pagination chain the remote serves
MaxCommits == 2    \* commits after the optional page of distinct authors
MaxItems == 2      \* items handed to the get_stats loop
MaxTail == 4       \* characters after the url prefix

(* Program constants *)

Limit == 30                 \* contributors[:30]
OldDaysPullRequest == 30    \* OLD_DAYS_NUM["pull_request"]
OldDaysIssue == 14          \* OLD_DAYS_NUM["issue"]
SecondsPerDay == 86400      \* timedelta normalisation behind .days

-----------------------------------------------------------------------------
(* Generic sequence helpers *)

RECURSIVE Flatten(_)
Flatten(ss) == IF ss = <<>> THEN <<>> ELSE Head(ss) \o Flatten(Tail(ss))

RECURSIVE SeqsUpTo(_, _)
SeqsUpTo(S, n) ==
    IF n = 0 THEN {<<>>}
    ELSE LET shorter == SeqsUpTo(S, n - 1)
         IN  shorter \cup {Append(s, x) : s \in {t \in shorter : Len(t) = n - 1}, x \in S}

Prefix(s, n) == SubSeq(s, 1, n)

StartsWith(s, p) == Len(s) >= Len(p) /\ Prefix(s, Len(p)) = p

-----------------------------------------------------------------------------
(* check_url: re.match('^https://github.com/[a-zA-Z0-9-]+/[a-zA-Z0-9-]+$', url) *)

Letters ==
    {"a","b","c","d","e","f","g","h","i","j","k","l","m","n","o","p","q","r","s","t",
     "u","v","w","x","y","z","A","B","C","D","E","F","G","H","I","J","K","L","M","N",
     "O","P","Q","R","S","T","U","V","W","X","Y","Z"}

Digits == {"0","1","2","3","4","5","6","7","8","9"}

\* the character class [a-zA-Z0-9-]
SegmentChars == Letters \cup Digits \cup {"-"}

\* the literal "https://github" of the pattern
UrlLit1 == <<"h","t","t","p","s",":","/","/","g","i","t","h","u","b">>

\* the literal "com/" of the pattern, after the unescaped "."
UrlLit2 == <<"c","o","m","/">>

\* index of the first character at or after i that is not in class C (Len+1 if none)
RECURSIVE RunEnd(_, _, _)
RunEnd(s, i, C) == IF i <= Len(s) /\ s[i] \in C THEN RunEnd(s, i + 1, C) ELSE i

\* "$" without re.MULTILINE: at the end, or just before a newline that ends the string
AtDollar(s, i) == i = Len(s) + 1 \/ (i = Len(s) /\ s[i] = "\n")

\* "." without re.DOTALL: any character but a newline
DotMatches(c) == c # "\n"

UrlMatches(u) ==
    LET d  == Len(UrlLit1) + 1              \* position of the "."
        o1 == d + 1 + Len(UrlLit2)          \* first character of the owner
        o2 == RunEnd(u, o1, SegmentChars)   \* the "/" after the owner
        r2 == RunEnd(u, o2 + 1, SegmentChars)
    IN  /\ Len(u) >= o1
        /\ Prefix(u, Len(UrlLit1)) = UrlLit1
        /\ DotMatches(u[d])
        /\ SubSeq(u, d + 1, d + Len(UrlLit2)) = UrlLit2
        /\ o2 > o1
        /\ o2 <= Len(u) /\ u[o2] = "/"
        /\ r2 > o2 + 1
        /\ AtDollar(u, r2)

\* str.split(sep) for a one-character separator
RECURSIVE Split(_, _)
Split(s, sep) ==
    LET i == RunEnd(s, 1, {c \in {s[k] : k \in 1..Len(s)} : c # sep})
    IN  IF i > Len(s) THEN <<s>>
        ELSE <<Prefix(s, i - 1)>> \o Split(SubSeq(s, i + 1, Len(s)), sep)

\* url.split("/")[3:5]
OwnerRepo(u) == LET parts == Split(u, "/") IN SubSeq(parts, 4, 5)

-----------------------------------------------------------------------------
(* Date strings: compared as strings in get_stats, parsed in is_old_pr *)

DigitChars == <<"0","1","2","3","4","5","6","7","8","9">>

DigitVal(c) == (CHOOSE n \in 1..10 : DigitChars[n] = c) - 1

\* code point of the characters a DATE_MASK string is made of
Ord(c) ==
    CASE c = "-" -> 45
      [] c \in Digits -> 48 + DigitVal(c)
      [] c = ":" -> 58
      [] c = "T" -> 84
      [] c = "Z" -> 90

\* Python's str < str: first differing code point decides, a proper prefix is smaller
RECURSIVE StrLess(_, _)
StrLess(a, b) ==
    IF b = <<>> THEN FALSE
    ELSE IF a = <<>> THEN TRUE
    ELSE IF Head(a) = Head(b) THEN StrLess(Tail(a), Tail(b))
    ELSE Ord(Head(a)) < Ord(Head(b))

\* datetime.strptime(s, DATE_MASK) of a string that matches the mask: the six
\* numeric fields, each a run of digits closed by its separator
RECURSIVE ScanFields(_, _, _, _)
ScanFields(s, i, cur, acc) ==
    IF i > Len(s) THEN acc
    ELSE IF s[i] \in Digits THEN ScanFields(s, i + 1, (cur * 10) + DigitVal(s[i]), acc)
    ELSE ScanFields(s, i + 1, 0, Append(acc, cur))

Strptime(s) ==
    LET f == ScanFields(s, 1, 0, <<>>)
    IN  [year |-> f[1], month |-> f[2], day |-> f[3],
         hour |-> f[4], minute |-> f[5], second |-> f[6]]

IsLeap(y) == y % 4 = 0 /\ (y % 100 # 0 \/ y % 400 = 0)

\* days before the first of each month in a common year
DaysBeforeMonthTable == <<0, 31, 59, 90, 120, 151, 181, 212, 243, 273, 304, 334>>

\* datetime's proleptic Gregorian ordinal of a date (0001-01-01 is day 1)
Ordinal(t) ==
    LET y == t.year - 1
    IN  (y * 365) + (y \div 4) - (y \div 100) + (y \div 400)
        + DaysBeforeMonthTable[t.month]
        + (IF t.month > 2 /\ IsLeap(t.year) THEN 1 ELSE 0)
        + t.day

SecondOfDay(t) == (t.hour * 3600) + (t.minute * 60) + t.second

\* (a - b).days: timedelta keeps 0 <= seconds < 86400, so days is the floor
DaysBetween(a, b) ==
    (Ordinal(a) - Ordinal(b)) + ((SecondOfDay(a) - SecondOfDay(b)) \div SecondsPerDay)

OldDaysNum(item_type) ==
    IF item_type = "pull_request" THEN OldDaysPullRequest ELSE OldDaysIssue

\* variant: an age equal to the threshold counts as old
IsOldPrAtLeast(pr_create_date, period_end_date, item_type) ==
    DaysBetween(Strptime(period_end_date), Strptime(pr_create_date)) >= OldDaysNum(item_type)

\* get_stats.is_old_pr
IsOldPr(pr_create_date, period_end_date, item_type) ==
    DaysBetween(Strptime(period_end_date), Strptime(pr_create_date)) > OldDaysNum(item_type)

\* variant: the bounds of the period are included
InPeriodInclusive(start, created_at, end) ==
    ~StrLess(created_at, start) /\ ~StrLess(end, created_at)

\* the test of the for loop: start_date < item.get("created_at") < end_date
InPeriod(start, created_at, end) == StrLess(start, created_at) /\ StrLess(created_at, end)

(* Inputs: date strings written out from their fields *)

Pad2(n) == <<DigitChars[(n \div 10) + 1], DigitChars[(n % 10) + 1]>>

Pad4(n) == Pad2(n \div 100) \o Pad2(n % 100)

NoPad(n) == IF n < 10 THEN <<DigitChars[n + 1]>> ELSE Pad2(n)

Iso(y, mo, d, h, mi, s) ==
    Pad4(y) \o <<"-">> \o Pad2(mo) \o <<"-">> \o Pad2(d) \o <<"T">>
    \o Pad2(h) \o <<":">> \o Pad2(mi) \o <<":">> \o Pad2(s) \o <<"Z">>

\* a date with month, day and time fields not zero-padded, which strptime accepts too
IsoNoPad(y, mo, d, h, mi, s) ==
    Pad4(y) \o <<"-">> \o NoPad(mo) \o <<"-">> \o NoPad(d) \o <<"T">>
    \o NoPad(h) \o <<":">> \o NoPad(mi) \o <<":">> \o NoPad(s) \o <<"Z">>

-----------------------------------------------------------------------------
(* Decoded JSON values and HTTP responses *)

\* a commit object: author is <<>> (absent or null) or <<login>>; logins are user numbers
Commit(author, message) == [kind |-> "dict", author |-> author, message |-> message]

\* an issue or pull request object; pull_request is the marker's truth value
Item(created_at, state, pull_request) ==
    [kind |-> "dict", created_at |-> created_at, state |-> state,
     pull_request |-> pull_request]

\* a string element: what list.extend takes out of a JSON object (its keys)
KeyItem(k) == [kind |-> "str", key |-> k]

ArrayBody(elems) == [type |-> "array", elems |-> elems]

\* the JSON object GitHub answers errors with
ObjectBody == [type |-> "object",
               elems |-> <<KeyItem("message"), KeyItem("documentation_url")>>]

\* a body json.loads cannot decode (an HTML error page, an empty body)
InvalidBody == [type |-> "invalid", elems |-> <<>>]

Statuses == {200, 401, 403, 404, 500}

\* the empty string the loop variable url ends with
NoUrl == [endpoint |-> "", owner |-> <<>>, repo |-> <<>>, page |-> 0]

\* COMMITS_URL.format(...) / ISSUES_URL.format(...): the first page of an endpoint
FirstUrl(endpoint, o, r) == [endpoint |-> endpoint, owner |-> o, repo |-> r, page |-> 1]

-----------------------------------------------------------------------------
(* get_items_list: one iteration of the while loop *)

\* response.links.get("next", {}).get("url", "")
NextUrl(u, resp) == IF resp.next THEN [u EXCEPT !.page = u.page + 1] ELSE NoUrl

\* variant: every status of 400 and above is taken for an error
StatusErrorAnyFailure(status_code) ==
    IF status_code = 404 THEN "branch_not_found"
    ELSE IF status_code = 401 THEN "wrong_credentials"
    ELSE IF status_code >= 400 THEN "rate_limit"
    ELSE "none"

\* the three status checks, in the order of the code
StatusError(status_code) ==
    IF status_code = 404 THEN "branch_not_found"
    ELSE IF status_code = 403 THEN "rate_limit"
    ELSE IF status_code = 401 THEN "wrong_credentials"
    ELSE "none"

\* variant: the new page is put in front of the list instead of behind it
LoopBodyPrepend(items, u, resp) ==
    IF resp.body.type = "invalid"
    THEN [items |-> items, url |-> u, raised |-> "decode_error"]
    ELSE [items |-> resp.body.elems \o items,
          url |-> NextUrl(u, resp),
          raised |-> StatusError(resp.status_code)]

\* json.loads(response.text) and items_list.extend fail on a body that is no JSON
\* array or object, before the status is looked at
LoopBody(items, u, resp) ==
    IF resp.body.type = "invalid"
    THEN [items |-> items, url |-> u, raised |-> "decode_error"]
    ELSE [items |-> items \o resp.body.elems,
          url |-> NextUrl(u, resp),
          raised |-> StatusError(resp.status_code)]

-----------------------------------------------------------------------------
(* get_top_contributors: the tally, the sort, the report *)

MergeLit == <<"M","e","r","g","e">>

Logins(res) == {res[i][1] : i \in 1..Len(res)}

\* result[login] += 1
Increment(res, login) ==
    LET i == CHOOSE k \in 1..Len(res) : res[k][1] = login
    IN  [res EXCEPT ![i] = <<login, res[i][2] + 1>>]

\* variant: a merge commit is skipped before its author is registered
TallyCommitSkipMerge(res, commit) ==
    IF commit.author # <<>> /\ ~StartsWith(commit.message, MergeLit)
    THEN LET login == commit.author[1]
             res1  == IF login \in Logins(res) THEN res ELSE Append(res, <<login, 0>>)
         IN  Increment(res1, login)
    ELSE res

\* the body of "for commit in commits"
TallyCommit(res, commit) ==
    IF commit.author # <<>>
    THEN LET login == commit.author[1]
             res1  == IF login \in Logins(res) THEN res ELSE Append(res, <<login, 0>>)
         IN  IF ~StartsWith(commit.message, MergeLit) THEN Increment(res1, login) ELSE res1
    ELSE res

\* place of entry i after a stable sort by count, largest first: list.sort is stable,
\* and with reverse=True entries of equal count keep their original order
RankByCount(res, i) ==
    Cardinality({j \in 1..Len(res) : res[j][2] > res[i][2]})
    + Cardinality({j \in 1..(i - 1) : res[j][2] = res[i][2]}) + 1

\* variant: reverse=True forgotten, smallest count first
SortedByCountAscending(res) ==
    LET place == [i \in 1..Len(res) |->
                    Cardinality({j \in 1..Len(res) : res[j][2] < res[i][2]})
                    + Cardinality({j \in 1..(i - 1) : res[j][2] = res[i][2]}) + 1]
    IN  [p \in 1..Len(res) |-> res[CHOOSE i \in 1..Len(res) : place[i] = p]]

\* sorted(result.items(), key=lambda it: it[1], reverse=True)
SortedByCount(res) ==
    LET place == [i \in 1..Len(res) |-> RankByCount(res, i)]
    IN  [p \in 1..Len(res) |-> res[CHOOSE i \in 1..Len(res) : place[i] = p]]

Min(a, b) == IF a < b THEN a ELSE b

\* contributors[:30]
TopContributors(contributors) == Prefix(contributors, Min(Limit, Len(contributors)))

PrintEvent(tag, arg) == [ev |-> "print", tag |-> tag, arg |-> arg]

GetEvent(u) == [ev |-> "GET", tag |-> u.endpoint, arg |-> <<u.owner, u.repo, u.page>>]

\* the four print statements of get_top_contributors
ContributorsReport(o, r, sd, ed, res) ==
    LET rows == TopContributors(SortedByCount(res))
    IN  <<PrintEvent("contributors_title", <<o, r>>),
          PrintEvent("contributors_dates", <<sd, ed>>),
          PrintEvent("contributors_header", <<>>)>>
        \o [i \in 1..Len(rows) |-> PrintEvent("contributor", rows[i])]

-----------------------------------------------------------------------------
(* get_stats: the counters and the report *)

ZeroCounters == [open |-> 0, closed |-> 0, old |-> 0]

\* variant: the test on the marker is inverted
ItemTypeInverted(item) == IF item.pull_request THEN "issue" ELSE "pull_request"

\* pull_requests if item.get("pull_request", "") else issues
ItemType(item) == IF item.pull_request THEN "pull_request" ELSE "issue"

\* the two state tests on the dictionary chosen for the item
CountItem(c, item, ed, item_type) ==
    LET c1 == IF item.state = "open"
              THEN [c EXCEPT !.open = c.open + 1,
                             !.old = IF IsOldPr(item.created_at, ed, item_type)
                                     THEN c.old + 1 ELSE c.old]
              ELSE c
    IN  IF item.state = "closed" THEN [c1 EXCEPT !.closed = c1.closed + 1] ELSE c1

\* the body of "for item in items": the pair (issues, pull_requests) after it
StatsItem(iss, prs, item, sd, ed) ==
    IF InPeriod(sd, item.created_at, ed)
    THEN IF ItemType(item) = "pull_request"
         THEN [issues |-> iss, pull_requests |-> CountItem(prs, item, ed, "pull_request")]
         ELSE [issues |-> CountItem(iss, item, ed, "issue"), pull_requests |-> prs]
    ELSE [issues |-> iss, pull_requests |-> prs]

\* for k, v in d.items(): print(...) -- open, closed, old in insertion order
CounterLines(tag, c) ==
    <<PrintEvent(tag, <<"open", c.open>>),
      PrintEvent(tag, <<"closed", c.closed>>),
      PrintEvent(tag, <<"old", c.old>>)>>

\* variant: the issue counters are printed before the pull-request counters
StatsReportIssuesFirst(o, r, sd, ed, iss, prs) ==
    <<PrintEvent("issues_title", <<o, r>>),
      PrintEvent("issues_dates", <<sd, ed>>)>>
    \o CounterLines("issue", iss)
    \o <<PrintEvent("pull_requests_title", <<o, r>>),
         PrintEvent("pull_requests_dates", <<sd, ed>>)>>
    \o CounterLines("pull_request", prs)

StatsReport(o, r, sd, ed, iss, prs) ==
    <<PrintEvent("pull_requests_title", <<o, r>>),
      PrintEvent("pull_requests_dates", <<sd, ed>>)>>
    \o CounterLines("pull_request", prs)
    \o <<PrintEvent("issues_title", <<o, r>>),
         PrintEvent("issues_dates", <<sd, ed>>)>>
    \o CounterLines("issue", iss)

-----------------------------------------------------------------------------
(* Inputs: the command line *)

GithubUrl == UrlLit1 \o <<".">> \o UrlLit2

\* prefixes the url argument is built from: the documented one, the same with another
\* character for the dot, another host, another scheme
UrlPrefixes ==
    { GithubUrl,
      UrlLit1 \o <<"X">> \o UrlLit2,
      <<"h","t","t","p","s",":","/","/","g","i","t","l","a","b",".","c","o","m","/">>,
      <<"h","t","t","p",":","/","/","g","i","t","h","u","b",".","c","o","m","/">> }

TailChars == {"a", "-", "/", "_", "\n"}

UrlCatalogue == {p \o t : p \in UrlPrefixes, t \in SeqsUpTo(TailChars, MaxTail)}

\* the url arguments of the complete runs: one the pattern accepts, one it rejects
RunUrls == { GithubUrl \o <<"a","/","b">>, GithubUrl \o <<"a">> }

PeriodStart == Iso(2020, 2, 29, 11, 59, 59)

PeriodEnd == Iso(2020, 3, 31, 12, 0, 0)

\* the same end date typed without zero padding
PeriodEndNoPad == IsoNoPad(2020, 3, 31, 12, 0, 0)

(* Inputs: what the remote holds *)

BeforeStart == Iso(2020, 2, 29, 11, 59, 58)
Age31Days == Iso(2020, 2, 29, 12, 0, 0)      \* one second after PeriodStart
Age30DaysLate == Iso(2020, 2, 29, 12, 0, 1)  \* 30 days 23:59:59 before PeriodEnd
Age15Days == Iso(2020, 3, 16, 12, 0, 0)
Age14DaysLate == Iso(2020, 3, 16, 12, 0, 1)  \* 14 days 23:59:59 before PeriodEnd
Age0Days == Iso(2020, 3, 31, 11, 59, 59)     \* one second before PeriodEnd
AfterEnd == Iso(2020, 3, 31, 12, 0, 1)

CreationDates ==
    {BeforeStart, PeriodStart, Age31Days, Age30DaysLate, Age15Days, Age14DaysLate,
     Age0Days, PeriodEnd, AfterEnd}

ItemKinds ==
    {Item(d, "open", p) : d \in CreationDates, p \in BOOLEAN}
    \cup {Item(d, "closed", p) : d \in {PeriodStart, Age31Days, Age0Days}, p \in BOOLEAN}
    \cup {Item(Age31Days, "other", p) : p \in BOOLEAN}

Messages ==
    { <<"M","e","r","g","e"," ","p","r">>, <<"M","e","r","g">>, <<"m","e","r","g","e">>,
      <<"f","i","x">> }

\* one commit by each of the users 1 .. Limit + 1
ManyAuthors == [i \in 1..(Limit + 1) |-> Commit(<<i>>, <<"f","i","x">>)]

CommitKinds ==
    {Commit(a, m) : a \in {<<>>, <<Limit + 1>>, <<Limit + 2>>}, m \in Messages}

CommitLists ==
    LET few == SeqsUpTo(CommitKinds, MaxCommits)
    IN  few \cup {ManyAuthors \o c : c \in few} \cup {c \o ManyAuthors : c \in few}

\* the array a page of an endpoint holds in the complete runs; pages differ, so the
\* order of concatenation shows
PageElems(endpoint, page) ==
    IF endpoint = "commits"
    THEN <<Commit(<<page>>, <<"f","i","x">>), Commit(<<page>>, <<"M","e","r","g","e"," ","p","r">>),
           Commit(<<>>, <<"f","i","x">>)>>
    ELSE IF page = 1
    THEN <<Item(Age15Days, "open", FALSE), Item(Age0Days, "closed", TRUE)>>
    ELSE <<Item(Age31Days, "open", TRUE)>>

Bodies(u) == {ArrayBody(PageElems(u.endpoint, u.page)), ObjectBody, InvalidBody}

\* the responses the remote may give to the n-th request of a fetch
Responses(u, n) ==
    {[status_code |-> st, body |-> b, next |-> nx] :
        st \in Statuses, b \in Bodies(u), nx \in {x \in BOOLEAN : x => n < MaxPages}}

-----------------------------------------------------------------------------
(* The program *)

\* argparse applies type=check_url to the positional argument
CheckUrl ==
    /\ pc = "args"
    /\ IF UrlMatches(url_arg)
       THEN pc' = "main" /\ error' = error
       ELSE pc' = "usage_error" /\ error' = "invalid_url"
    /\ UNCHANGED <<url_arg, owner, repo, start_date, end_date, url, items_list, served,
                   result, pos, issues, pull_requests, trace>>

\* main: the split, then get_top_contributors up to its call of get_items_list
Main ==
    /\ pc = "main"
    /\ LET parts == OwnerRepo(url_arg)
       IN  /\ owner' = parts[1]
           /\ repo' = parts[2]
           /\ url' = FirstUrl("commits", parts[1], parts[2])
    /\ items_list' = <<>>
    /\ served' = <<>>
    /\ pc' = "commits_fetch"
    /\ UNCHANGED <<url_arg, start_date, end_date, result, pos, issues, pull_requests,
                   trace, error>>

\* get_items_list: one request and the rest of the loop body; a raised exception ends
\* the run, an empty url returns to the caller
Request ==
    /\ pc \in {"commits_fetch", "issues_fetch"}
    /\ \E resp \in Responses(url, Len(served) + 1) :
         LET r == LoopBody(items_list, url, resp)
         IN  /\ trace' = Append(trace, GetEvent(url))
             /\ served' = Append(served, resp)
             /\ items_list' = r.items
             /\ url' = r.url
             /\ error' = r.raised
             /\ pc' = IF r.raised # "none" THEN "raised"
                      ELSE IF r.url # NoUrl THEN pc
                      ELSE IF pc = "commits_fetch" THEN "tally" ELSE "stats_loop"
    /\ result' = <<>>             \* result = {} of get_top_contributors
    /\ issues' = ZeroCounters     \* the two dictionaries of get_stats
    /\ pull_requests' = ZeroCounters
    /\ pos' = 1
    /\ UNCHANGED <<url_arg, owner, repo, start_date, end_date>>

\* get_top_contributors: one pass of "for commit in commits"; commit.get fails on an
\* element that is no dictionary
TallyStep ==
    /\ pc = "tally"
    /\ pos <= Len(items_list)
    /\ LET commit == items_list[pos]
       IN  IF commit.kind # "dict"
           THEN /\ pc' = "raised"
                /\ error' = "attribute_error"
                /\ UNCHANGED <<pos, result>>
           ELSE /\ result' = TallyCommit(result, commit)
                /\ pos' = pos + 1
                /\ UNCHANGED <<pc, error>>
    /\ UNCHANGED <<url_arg, owner, repo, start_date, end_date, url, items_list, served,
                   issues, pull_requests, trace>>

\* get_top_contributors: the sort and the prints after the loop, then get_stats up to
\* its call of get_items_list
PrintContributors ==
    /\ pc = "tally"
    /\ pos > Len(items_list)
    /\ trace' = trace \o ContributorsReport(owner, repo, start_date, end_date, result)
    /\ url' = FirstUrl("issues", owner, repo)
    /\ items_list' = <<>>
    /\ served' = <<>>
    /\ pc' = "issues_fetch"
    /\ UNCHANGED <<url_arg, owner, repo, start_date, end_date, result, pos, issues,
                   pull_requests, error>>

\* get_stats: one pass of "for item in items"
StatsStep ==
    /\ pc = "stats_loop"
    /\ pos <= Len(items_list)
    /\ LET item == items_list[pos]
       IN  IF item.kind # "dict"
           THEN /\ pc' = "raised"
                /\ error' = "attribute_error"
                /\ UNCHANGED <<pos, issues, pull_requests>>
           ELSE LET c == StatsItem(issues, pull_requests, item, start_date, end_date)
                IN  /\ issues' = c.issues
                    /\ pull_requests' = c.pull_requests
                    /\ pos' = pos + 1
                    /\ UNCHANGED <<pc, error>>
    /\ UNCHANGED <<url_arg, owner, repo, start_date, end_date, url, items_list, served,
                   result, trace>>

\* get_stats: the prints after the loop
PrintStats ==
    /\ pc = "stats_loop"
    /\ pos > Len(items_list)
    /\ trace' = trace \o StatsReport(owner, repo, start_date, end_date, issues,
                                     pull_requests)
    /\ pc' = "done"
    /\ UNCHANGED <<url_arg, owner, repo, start_date, end_date, url, items_list, served,
                   result, pos, issues, pull_requests, error>>

-----------------------------------------------------------------------------
(* Specifications *)

\* a complete run, from the parsing of the command line
Init ==
    /\ pc = "args"
    /\ url_arg \in RunUrls
    /\ owner = <<>> /\ repo = <<>>
    /\ start_date = PeriodStart /\ end_date = PeriodEnd
    /\ url = NoUrl
    /\ items_list = <<>> /\ served = <<>>
    /\ result = <<>>
    /\ pos = 1
    /\ issues = ZeroCounters /\ pull_requests = ZeroCounters
    /\ trace = <<>>
    /\ error = "none"

Next ==
    CheckUrl \/ Main \/ Request \/ TallyStep \/ PrintContributors \/ StatsStep \/ PrintStats

Spec == Init /\ [][Next]_vars

\* the command line alone, over every url of the catalogue
InitArgs ==
    /\ pc = "args"
    /\ url_arg \in UrlCatalogue
    /\ owner = <<>> /\ repo = <<>>
    /\ start_date = PeriodStart /\ end_date = PeriodEnd
    /\ url = NoUrl
    /\ items_list = <<>> /\ served = <<>>
    /\ result = <<>>
    /\ pos = 1
    /\ issues = ZeroCounters /\ pull_requests = ZeroCounters
    /\ trace = <<>>
    /\ error = "none"

NextArgs == CheckUrl \/ Main

SpecArgs == InitArgs /\ [][NextArgs]_vars

\* the state in which get_items_list has returned one page of commits
InitContrib ==
    /\ pc = "tally"
    /\ url_arg = GithubUrl \o <<"a","/","b">>
    /\ owner = <<"a">> /\ repo = <<"b">>
    /\ start_date = PeriodStart /\ end_date = PeriodEnd
    /\ url = NoUrl
    /\ items_list \in CommitLists
    /\ served = <<[status_code |-> 200, body |-> ArrayBody(items_list), next |-> FALSE]>>
    /\ result = <<>>
    /\ pos = 1
    /\ issues = ZeroCounters /\ pull_requests = ZeroCounters
    /\ trace = <<GetEvent(FirstUrl("commits", owner, repo))>>
    /\ error = "none"

NextContrib == TallyStep \/ PrintContributors

SpecContrib == InitContrib /\ [][NextContrib]_vars

\* the state in which get_stats has received one page of items, after the
\* contributors report of a branch without commits
InitStats ==
    /\ pc = "stats_loop"
    /\ url_arg = GithubUrl \o <<"a","/","b">>
    /\ owner = <<"a">> /\ repo = <<"b">>
    /\ start_date = PeriodStart
    /\ end_date \in {PeriodEnd, PeriodEndNoPad}
    /\ url = NoUrl
    /\ items_list \in SeqsUpTo(ItemKinds, MaxItems)
    /\ served = <<[status_code |-> 200, body |-> ArrayBody(items_list), next |-> FALSE]>>
    /\ result = <<>>
    /\ pos = 1
    /\ issues = ZeroCounters /\ pull_requests = ZeroCounters
    /\ trace = <<GetEvent(FirstUrl("commits", owner, repo))>>
               \o ContributorsReport(owner, repo, start_date, end_date, <<>>)
               \o <<GetEvent(FirstUrl("issues", owner, repo))>>
    /\ error = "none"

NextStats == StatsStep \/ PrintStats

SpecStats == InitStats /\ [][NextStats]_vars

-----------------------------------------------------------------------------
(* Vocabulary of the properties *)

Last(q) == q[Len(q)]

\* the requests sent to an endpoint, in order
Gets(endpoint) == SelectSeq(trace, LAMBDA e : e.ev = "GET" /\ e.tag = endpoint)

\* the lines printed with a tag, in order
Printed(tag) == SelectSeq(trace, LAMBDA e : e.ev = "print" /\ e.tag = tag)

\* the endpoint the responses in served came from
ServedEndpoint == IF Gets("issues") = <<>> THEN "commits" ELSE "issues"

\* the elements of the bodies received so far, page after page
ServedElems == Flatten([i \in 1..Len(served) |-> served[i].body.elems])

Fetching == pc \in {"commits_fetch", "issues_fetch"}

\* get_items_list has returned its list to the caller
Returned == pc \in {"tally", "stats_loop", "done"}

PagesInOrder(gets) == \A k \in 1..Len(gets) : gets[k].arg[3] = k

-----------------------------------------------------------------------------
(* C1 *)

AllPagesSuccessful ==
    /\ served # <<>>
    /\ \A i \in 1..Len(served) :
         served[i].status_code = 200 /\ served[i].body.type = "array"

\* C1: as long as every page received is a successful array page, get_items_list has
\* sent exactly as many requests as pages, the k-th for the k-th page, and holds the
\* concatenation of the pages in page order; after a page with a next link it goes
\* on with that link, after a page without one it has returned that list.
C1_PaginationConcatenates ==
    AllPagesSuccessful =>
        LET n == Len(served)
            gets == Gets(ServedEndpoint)
        IN  /\ Len(gets) = n
            /\ PagesInOrder(gets)
            /\ items_list = ServedElems
            /\ error = "none"
            /\ IF served[n].next
               THEN Fetching /\ url = [FirstUrl(ServedEndpoint, owner, repo) EXCEPT !.page = n + 1]
               ELSE Returned

C1_Witness ==
    /\ AllPagesSuccessful
    /\ Len(served) = 3
    /\ ~served[3].next
    /\ pc = "tally"
    /\ Len(Gets("commits")) = 3
    /\ Len(items_list) = 9

-----------------------------------------------------------------------------
(* C2 *)

ErrorOfStatus(st) ==
    CASE st = 404 -> "branch_not_found"
      [] st = 403 -> "rate_limit"
      [] st = 401 -> "wrong_credentials"

\* C2: whenever the last response of a fetch has status 404, 403 or 401, the run has
\* ended with the error of that status, no list was returned, and the request that
\* got the response is the last one sent.
C2_ErrorStatusRaises ==
    (served # <<>> /\ Last(served).status_code \in {404, 403, 401}) =>
        /\ pc = "raised"
        /\ error = ErrorOfStatus(Last(served).status_code)
        /\ Len(Gets(ServedEndpoint)) = Len(served)
        /\ Last(trace).ev = "GET"

-----------------------------------------------------------------------------
(* C10 *)

\* C10: a response with status 500 is treated as a response with status 200 is: none of
\* the three fetch errors is raised; a body that decodes is appended to the list, and
\* the fetch goes on with the next link or, without one, returns; a body that does not
\* decode raises the decoding error, whatever the status.
C10_OtherStatusLikeSuccess ==
    [][ (Len(served') = Len(served) + 1 /\ Last(served').status_code = 500) =>
          LET resp == Last(served')
          IN  /\ error' \notin {"branch_not_found", "rate_limit", "wrong_credentials"}
              /\ IF resp.body.type = "invalid"
                 THEN pc' = "raised" /\ error' = "decode_error"
                 ELSE /\ error' = "none"
                      /\ items_list' = items_list \o resp.body.elems
                      /\ IF resp.next
                         THEN pc' = pc /\ url' = [url EXCEPT !.page = url.page + 1]
                         ELSE Returned' /\ url' = NoUrl ]_vars

C10_Witness ==
    /\ pc = "commits_fetch"
    /\ Len(served) = 2
    /\ served[1].status_code = 500 /\ served[1].body.type = "array" /\ served[1].next
    /\ served[2].status_code = 500 /\ served[2].body.type = "object" /\ served[2].next
    /\ Len(items_list) = 5
    /\ error = "none"

-----------------------------------------------------------------------------
(* C9 *)

ContributorTags ==
    {"contributors_title", "contributors_dates", "contributors_header", "contributor"}

PullRequestTags == {"pull_requests_title", "pull_requests_dates", "pull_request"}

IssueTags == {"issues_title", "issues_dates", "issue"}

\* the stage of a run an event belongs to
Stage(e) ==
    IF e.ev = "GET" THEN (IF e.tag = "commits" THEN 1 ELSE 3)
    ELSE IF e.tag \in ContributorTags THEN 2
    ELSE IF e.tag \in PullRequestTags THEN 4
    ELSE 5

CounterKeys(tag) == LET l == Printed(tag) IN [i \in 1..Len(l) |-> l[i].arg[1]]

CounterValues(tag) == LET l == Printed(tag) IN [i \in 1..Len(l) |-> l[i].arg[2]]

NothingPrinted == \A i \in 1..Len(trace) : trace[i].ev # "print"

\* the run ended by an exception of get_items_list called for the endpoint
FetchRaised(endpoint) ==
    /\ pc = "raised"
    /\ error \in {"branch_not_found", "rate_limit", "wrong_credentials", "decode_error"}
    /\ Last(trace).ev = "GET" /\ Last(trace).tag = endpoint

OrderedRun ==
    /\ \A i, j \in 1..Len(trace) : i < j => Stage(trace[i]) <= Stage(trace[j])
    /\ CounterKeys("pull_request") \in {<<>>, <<"open", "closed", "old">>}
    /\ CounterKeys("issue") \in {<<>>, <<"open", "closed", "old">>}
    /\ pc = "done" =>
         /\ CounterValues("pull_request")
              = <<pull_requests.open, pull_requests.closed, pull_requests.old>>
         /\ CounterValues("issue") = <<issues.open, issues.closed, issues.old>>
    /\ FetchRaised("commits") => NothingPrinted /\ Gets("issues") = <<>>
    /\ FetchRaised("issues") =>
         /\ Len(Printed("contributors_title")) = 1
         /\ Len(Printed("contributors_header")) = 1
         /\ \A i \in 1..Len(trace) : Stage(trace[i]) <= 3

\* C9: in every run the commit requests come first, then the contributors report, then
\* the issue requests, then the pull-request counters open, closed, old, then the
\* issue counters open, closed, old; when the commit fetch raises nothing has been
\* printed and no issue request sent; when the issue fetch raises the contributors
\* report is printed and no counter line is; and nothing sent or printed is ever
\* taken back.
C9_RunOrder ==
    [][ OrderedRun' /\ Len(trace) <= Len(trace') /\ Prefix(trace', Len(trace)) = trace ]_vars

C9_Witness ==
    /\ FetchRaised("issues")
    /\ Len(Gets("commits")) = 2
    /\ Len(Gets("issues")) = 2
    /\ Len(Printed("contributor")) = 2

-----------------------------------------------------------------------------
(* C3 *)

\* the commits the loop of get_top_contributors has gone through
Processed == Prefix(items_list, pos - 1)

HasAuthor(c) == c.author # <<>>

\* the message begins with the five characters M, e, r, g, e
IsMergeMessage(m) ==
    Len(m) >= 5 /\ m[1] = "M" /\ m[2] = "e" /\ m[3] = "r" /\ m[4] = "g" /\ m[5] = "e"

CommitsCounted(login) ==
    Cardinality({i \in 1..(pos - 1) :
                    /\ HasAuthor(items_list[i])
                    /\ items_list[i].author[1] = login
                    /\ ~IsMergeMessage(items_list[i].message)})

\* C3: after any number of commits, the keys of the tally are exactly the logins of
\* the commits gone through that have an author, each once, and the count of a login
\* is the number of its commits whose message does not start with "Merge".
C3_TallyCountsNonMerge ==
    pc = "tally" =>
        /\ Logins(result)
             = {Processed[i].author[1] : i \in {k \in 1..(pos - 1) : HasAuthor(Processed[k])}}
        /\ Cardinality(Logins(result)) = Len(result)
        /\ \A k \in 1..Len(result) : result[k][2] = CommitsCounted(result[k][1])

\* an author with merge commits only is in the tally with 0, next to a counted author,
\* and a commit without author has been gone through
C3_Witness ==
    /\ pc = "tally"
    /\ pos = Len(items_list) + 1
    /\ \E k \in 1..Len(result) : result[k][2] = 0
    /\ \E k \in 1..Len(result) : result[k][2] = 1
    /\ \E i \in 1..Len(items_list) : ~HasAuthor(items_list[i])

-----------------------------------------------------------------------------
(* C4 *)

\* the contributor rows of the report, as (login, count) pairs
Rows == LET l == Printed("contributor") IN [i \in 1..Len(l) |-> l[i].arg]

ReportPrinted == Printed("contributors_header") # <<>>

\* C4: the rows printed are tally entries in non-increasing order of count, there are
\* min(30, number of tally entries) of them, and no entry left out has a larger count
\* than a printed one.
C4_TopThirtySorted ==
    (pc = "issues_fetch" /\ ReportPrinted) =>
        LET shown == {Rows[i] : i \in 1..Len(Rows)}
            all == {result[i] : i \in 1..Len(result)}
        IN  /\ shown \subseteq all
            /\ Cardinality(shown) = Len(Rows)
            /\ Len(Rows) = (IF Len(result) < 30 THEN Len(result) ELSE 30)
            /\ \A i, j \in 1..Len(Rows) : i < j => Rows[i][2] >= Rows[j][2]
            /\ \A e \in all \ shown : \A r \in shown : e[2] <= r[2]

\* more than 30 contributors, of which one with a smaller count is left out and the
\* last one registered is printed first
C4_Witness ==
    /\ pc = "issues_fetch" /\ ReportPrinted
    /\ Len(result) = 32
    /\ Len(Rows) = 30
    /\ Rows[1] = result[31]
    /\ \E k \in 1..Len(result) : result[k][2] < Rows[30][2]

-----------------------------------------------------------------------------
(* C5 *)

\* start_date < created_at < end_date, as the strings compare
StrictlyInside(item) ==
    StrLess(start_date, item.created_at) /\ StrLess(item.created_at, end_date)

\* C5: a pass of the get_stats loop over an item whose created_at is not strictly
\* between start_date and end_date leaves the six counters as they were.
C5_OutsideWindowIgnored ==
    [][ (pc = "stats_loop" /\ pos' = pos + 1 /\ ~StrictlyInside(items_list[pos]))
          => (issues' = issues /\ pull_requests' = pull_requests) ]_vars

\* an open item created at end_date and an open item created at start_date have been
\* gone through and nothing is counted
C5_Witness ==
    /\ pc = "stats_loop"
    /\ pos = 3
    /\ items_list[1].created_at = end_date /\ items_list[1].state = "open"
    /\ items_list[2].created_at = start_date /\ items_list[2].state = "open"
    /\ issues = ZeroCounters /\ pull_requests = ZeroCounters

-----------------------------------------------------------------------------
(* C6 *)

\* the items gone through that lie strictly inside the window, by marker and state
SeenInside(marker, state) ==
    {i \in 1..(pos - 1) :
        /\ StrictlyInside(items_list[i])
        /\ items_list[i].pull_request = marker
        /\ items_list[i].state = state}

\* C6: after any number of items, the open and closed counters of pull_requests count
\* the items inside the window that carry the marker, by state, those of issues the
\* items inside the window without it; an item of another state is in none of them.
C6_EachItemCountedOnce ==
    pc \in {"stats_loop", "done"} =>
        /\ pull_requests.open = Cardinality(SeenInside(TRUE, "open"))
        /\ pull_requests.closed = Cardinality(SeenInside(TRUE, "closed"))
        /\ issues.open = Cardinality(SeenInside(FALSE, "open"))
        /\ issues.closed = Cardinality(SeenInside(FALSE, "closed"))
        /\ pull_requests.open + pull_requests.closed + issues.open + issues.closed
             = Cardinality({i \in 1..(pos - 1) :
                               /\ StrictlyInside(items_list[i])
                               /\ items_list[i].state \in {"open", "closed"}})

\* a closed pull request and an item of another state, both inside the window, have
\* been gone through
C6_Witness ==
    /\ pc = "stats_loop"
    /\ pos = 3
    /\ items_list[1].state = "closed" /\ items_list[1].pull_request
    /\ StrictlyInside(items_list[1])
    /\ items_list[2].state = "other" /\ StrictlyInside(items_list[2])
    /\ pull_requests.closed = 1
    /\ issues = ZeroCounters

-----------------------------------------------------------------------------
(* C7 *)

\* whole days from each creation date of the catalogue to the end of the period
\* (2020-03-31T12:00:00Z, however it is written), reckoned by the calendar
WholeDaysToEnd(created_at) ==
    CASE created_at \in {BeforeStart, PeriodStart, Age31Days} -> 31
      [] created_at = Age30DaysLate -> 30
      [] created_at = Age15Days -> 15
      [] created_at = Age14DaysLate -> 14
      [] created_at \in {Age0Days, PeriodEnd} -> 0
      [] created_at = AfterEnd -> -1

OldSeen(marker, threshold) ==
    {i \in SeenInside(marker, "open") : WholeDaysToEnd(items_list[i].created_at) > threshold}

\* C7: after any number of items, the old counter of pull_requests counts the open
\* pull requests inside the window that are more than 30 whole days old at end_date,
\* the old counter of issues the open issues inside the window more than 14 whole
\* days old; so old never exceeds open.
C7_OldCountsOverThreshold ==
    pc \in {"stats_loop", "done"} =>
        /\ pull_requests.old = Cardinality(OldSeen(TRUE, 30))
        /\ issues.old = Cardinality(OldSeen(FALSE, 14))
        /\ pull_requests.old <= pull_requests.open
        /\ issues.old <= issues.open

\* an open pull request 30 days and 23:59:59 old is not old, an open issue 15 days old is
C7_Witness ==
    /\ pc = "stats_loop"
    /\ pos = 3
    /\ items_list[1] = Item(Age30DaysLate, "open", TRUE)
    /\ items_list[2] = Item(Age15Days, "open", FALSE)
    /\ pull_requests = [open |-> 1, closed |-> 0, old |-> 0]
    /\ issues = [open |-> 1, closed |-> 0, old |-> 1]

-----------------------------------------------------------------------------
(* C8 *)

IsSegment(seg) == seg # <<>> /\ \A i \in 1..Len(seg) : seg[i] \in SegmentChars

\* https://github.com/<owner>/<repo>, the format check_url's message asks for
HasRepoShape(u) ==
    LET parts == Split(u, "/")
    IN  /\ Len(parts) = 5
        /\ parts[1] = <<"h","t","t","p","s",":">>
        /\ parts[2] = <<>>
        /\ parts[3] = <<"g","i","t","h","u","b",".","c","o","m">>
        /\ IsSegment(parts[4])
        /\ IsSegment(parts[5])

\* C8: a url of the shape is accepted and the run works on the owner and repository
\* that are its third and fourth path segments; any other url is refused with the
\* invalid-url error.
C8_UrlShapeDecides ==
    pc # "args" =>
        IF HasRepoShape(url_arg)
        THEN /\ pc \in {"main", "commits_fetch"}
             /\ pc = "commits_fetch" =>
                  /\ owner = Split(url_arg, "/")[4]
                  /\ repo = Split(url_arg, "/")[5]
                  /\ url = FirstUrl("commits", owner, repo)
        ELSE pc = "usage_error" /\ error = "invalid_url"

=============================================================================
